---- MODULE Spec2Model ----
(***************************************************************************)
(* Model of the study-buddy tool functions of src/agent.py and of the      *)
(* teaching loop that ROOT_INSTRUCTIONS prescribes for them.               *)
(*                                                                         *)
(* Python floats in [0, 1] are modelled in hundredths: 0.75 is 75, the     *)
(* default passing threshold 0.8 is 80.  Python dicts are TLA+ records,    *)
(* lists are sequences, f-strings are built with \o and ToString.          *)
(***************************************************************************)
EXTENDS Integers, Sequences, FiniteSets, TLC

(* ------------------------------ bounds --------------------------------- *)
MaxLen == 2          \* longest key_concepts list passed by a direct caller
MaxSection == 2      \* largest section_number passed to teach/quiz directly
MaxChecks == 5       \* checks the teaching loop performs before the model stops

(* ------------------------------ inputs --------------------------------- *)
Procs == {1, 2}
Grades == {"9th grade", "college freshman"}
Subjects == {"Biology", "Algebra II"}
Dates == {"2024-06-01", "next week"}
Knowledge == {"beginner", "intermediate"}
Concepts == {"Cells", "Genetics"}
Difficulties == {"easy", "hard"}
Thresholds == {0, 75, 76, 100}

EmptyDict == [k \in {} |-> 0]

ConceptLists == UNION {[1..n -> Concepts] : n \in 0..MaxLen}

(* --------------------------- tool functions ---------------------------- *)
get_student_info_swapped(grade_level, subject, exam_date, current_knowledge) ==
    [student_profile |-> [grade_level |-> subject,
                          subject |-> grade_level,
                          exam_date |-> exam_date,
                          current_knowledge |-> current_knowledge,
                          profile_complete |-> TRUE],
     next_step |-> "research_subject"]

get_student_info(grade_level, subject, exam_date, current_knowledge) ==
    [student_profile |-> [grade_level |-> grade_level,
                          subject |-> subject,
                          exam_date |-> exam_date,
                          current_knowledge |-> current_knowledge,
                          profile_complete |-> TRUE],
     next_step |-> "research_subject"]

research_subject_by_subject(subject, grade_level) ==
    [subject_overview |-> "Research completed for " \o subject \o " at "
                            \o grade_level \o " level",
     key_concepts |-> <<"Fundamental principles of " \o subject,
                        "Core theories and applications",
                        "Problem-solving techniques",
                        "Common exam topics">>,
     difficulty_areas |-> <<"Abstract concepts", "Mathematical applications",
                            "Memorization requirements">>,
     next_step |-> "create_study_sections"]

research_subject(subject, grade_level) ==
    [subject_overview |-> "Research completed for " \o subject \o " at "
                            \o grade_level \o " level",
     key_concepts |-> <<"Fundamental principles",
                        "Core theories and applications",
                        "Problem-solving techniques",
                        "Common exam topics">>,
     difficulty_areas |-> <<"Abstract concepts", "Mathematical applications",
                            "Memorization requirements">>,
     next_step |-> "create_study_sections"]

\* the f-string of the prerequisites field
Prerequisites_off_by_one(i) ==
    IF i > 1 THEN "Understanding of previous " \o ToString(i) \o " sections"
             ELSE "Basic foundational knowledge"

Prerequisites(i) ==
    IF i > 1 THEN "Understanding of previous " \o ToString(i - 1) \o " sections"
             ELSE "Basic foundational knowledge"

\* the dict appended for the i-th concept
Section_zero_based(i, concept) ==
    [section_number |-> i - 1,
     title |-> concept,
     estimated_time |-> "3-5 study sessions",
     prerequisites |-> Prerequisites(i),
     learning_objectives |-> <<"Master " \o concept,
                               "Apply " \o concept \o " to problems",
                               "Explain " \o concept \o " clearly">>,
     status |-> "not_started"]

Section(i, concept) ==
    [section_number |-> i,
     title |-> concept,
     estimated_time |-> "3-5 study sessions",
     prerequisites |-> Prerequisites(i),
     learning_objectives |-> <<"Master " \o concept,
                               "Apply " \o concept \o " to problems",
                               "Explain " \o concept \o " clearly">>,
     status |-> "not_started"]

\* one iteration of the for loop: i is the enumerate index (from 1)
LoopBody_dedup(sections, i, key_concepts) ==
    IF \E j \in 1..Len(sections) : sections[j].title = key_concepts[i]
    THEN sections
    ELSE Append(sections, Section(i, key_concepts[i]))

LoopBody(sections, i, key_concepts) ==
    Append(sections, Section(i, key_concepts[i]))

\* the return statement of create_study_sections
CreateReturn_first_section(sections) ==
    IF sections = <<>>
    THEN [error |-> "IndexError"]
    ELSE [study_sections |-> sections,
          total_sections |-> Len(sections),
          current_section |-> sections[1].section_number,
          next_step |-> "teach_section"]

CreateReturn(sections) ==
    [study_sections |-> sections,
     total_sections |-> Len(sections),
     current_section |-> 1,
     next_step |-> "teach_section"]

RECURSIVE RunLoop(_, _, _)
RunLoop(sections, i, key_concepts) ==
    IF i > Len(key_concepts) THEN sections
    ELSE RunLoop(LoopBody(sections, i, key_concepts), i + 1, key_concepts)

create_study_sections(subject, key_concepts, exam_date) ==
    CreateReturn(RunLoop(<<>>, 1, key_concepts))

teach_section(section_number, section_title, student_grade) ==
    [section_taught |-> [number |-> section_number,
                         title |-> section_title,
                         explanations_provided |-> TRUE,
                         examples_given |-> TRUE,
                         grade_appropriate |-> student_grade],
     teaching_summary |-> "Completed teaching " \o section_title
                            \o " with explanations and examples suitable for "
                            \o student_grade,
     next_step |-> "quiz_section"]

DefaultDifficulty == "medium"

quiz_section_no_hint(section_number, section_title, difficulty_level) ==
    [quiz_administered |-> [section |-> section_number,
                            title |-> section_title,
                            difficulty |-> difficulty_level,
                            questions_asked |-> 5,
                            answers_received |-> TRUE]]

quiz_section(section_number, section_title, difficulty_level) ==
    [quiz_administered |-> [section |-> section_number,
                            title |-> section_title,
                            difficulty |-> difficulty_level,
                            questions_asked |-> 5,
                            answers_received |-> TRUE],
     next_step |-> "check_understanding"]

understanding_level == 75
DefaultPassingThreshold == 80

check_understanding_strict(quiz_results, passing_threshold) ==
    IF understanding_level > passing_threshold
    THEN [understanding_sufficient |-> TRUE,
          score |-> understanding_level,
          next_action |-> "proceed_to_next_section",
          message |-> "Great job! You've mastered this section. Let's move to the next one."]
    ELSE [understanding_sufficient |-> FALSE,
          score |-> understanding_level,
          next_action |-> "review_and_reteach",
          weak_concepts |-> <<"Concept A", "Concept B">>,
          message |-> "Let's review some concepts you're still working on, then try the quiz again."]

check_understanding(quiz_results, passing_threshold) ==
    IF understanding_level >= passing_threshold
    THEN [understanding_sufficient |-> TRUE,
          score |-> understanding_level,
          next_action |-> "proceed_to_next_section",
          message |-> "Great job! You've mastered this section. Let's move to the next one."]
    ELSE [understanding_sufficient |-> FALSE,
          score |-> understanding_level,
          next_action |-> "review_and_reteach",
          weak_concepts |-> <<"Concept A", "Concept B">>,
          message |-> "Let's review some concepts you're still working on, then try the quiz again."]

QuizResults == {EmptyDict, [score |-> 100], quiz_section(1, "Cells", DefaultDifficulty)}


(* ------------------------------ state ---------------------------------- *)
VARIABLES
    pc,            \* per caller: "idle", "loop" (inside create_study_sections), "done"
    call,          \* per caller: the tool and the arguments of its current/last call
    sections,      \* per frame: the local list `sections` of create_study_sections
    idx,           \* per frame: the enumerate index i of the for loop (from 1)
    result,        \* per caller: the record returned by its last completed call
    wf_step,       \* teaching loop: the step of ROOT_INSTRUCTIONS the agent is at
    wf_profile,    \* teaching loop: student_profile returned by get_student_info
    wf_research,   \* teaching loop: record returned by research_subject
    wf_plan,       \* teaching loop: record returned by create_study_sections
    wf_cur,        \* teaching loop: number of the section being taught
    wf_quiz,       \* teaching loop: record returned by the last quiz_section
    wf_check,      \* teaching loop: record returned by the last check_understanding
    checks,        \* teaching loop: number of check_understanding calls so far
    lowChecks,     \* teaching loop: how many of them had passing_threshold <= 0.75
    allDefault     \* teaching loop: every check so far omitted passing_threshold

callerVars == <<pc, call, sections, idx, result>>
loopVars == <<wf_step, wf_profile, wf_research, wf_plan, wf_cur, wf_quiz,
              wf_check, checks, lowChecks, allDefault>>
vars == <<pc, call, sections, idx, result, wf_step, wf_profile, wf_research,
          wf_plan, wf_cur, wf_quiz, wf_check, checks, lowChecks, allDefault>>

NoCall == [tool |-> "none", args |-> EmptyDict]

\* the frame that holds the locals of caller p's call: one per call
Frame_shared(p) == 1

Frame(p) == p

CallerInit ==
    /\ pc = [p \in Procs |-> "idle"]
    /\ call = [p \in Procs |-> NoCall]
    /\ sections = [p \in Procs |-> <<>>]
    /\ idx = [p \in Procs |-> 1]
    /\ result = [p \in Procs |-> EmptyDict]

LoopIdle ==
    /\ wf_step = "intake"
    /\ wf_profile = EmptyDict
    /\ wf_research = EmptyDict
    /\ wf_plan = EmptyDict
    /\ wf_cur = 0
    /\ wf_quiz = EmptyDict
    /\ wf_check = EmptyDict
    /\ checks = 0
    /\ lowChecks = 0
    /\ allDefault = TRUE

Init == CallerInit /\ LoopIdle

(* ------------------- direct calls, in any order ------------------------ *)
\* a caller that is not inside a call may call any tool next; a tool that is
\* a single return statement is one step
call_get_student_info(p) ==
    /\ pc[p] # "loop"
    /\ \E g \in Grades, s \in Subjects, d \in Dates, k \in Knowledge :
          /\ call' = [call EXCEPT ![p] =
                         [tool |-> "get_student_info",
                          args |-> [grade_level |-> g, subject |-> s,
                                    exam_date |-> d, current_knowledge |-> k]]]
          /\ result' = [result EXCEPT ![p] = get_student_info(g, s, d, k)]
    /\ pc' = [pc EXCEPT ![p] = "done"]
    /\ UNCHANGED <<sections, idx>>
    /\ UNCHANGED loopVars

call_research_subject(p) ==
    /\ pc[p] # "loop"
    /\ \E s \in Subjects, g \in Grades :
          /\ call' = [call EXCEPT ![p] =
                         [tool |-> "research_subject",
                          args |-> [subject |-> s, grade_level |-> g]]]
          /\ result' = [result EXCEPT ![p] = research_subject(s, g)]
    /\ pc' = [pc EXCEPT ![p] = "done"]
    /\ UNCHANGED <<sections, idx>>
    /\ UNCHANGED loopVars

call_teach_section(p) ==
    /\ pc[p] # "loop"
    /\ \E n \in 1..MaxSection, t \in Concepts, g \in Grades :
          /\ call' = [call EXCEPT ![p] =
                         [tool |-> "teach_section",
                          args |-> [section_number |-> n, section_title |-> t,
                                    student_grade |-> g]]]
          /\ result' = [result EXCEPT ![p] = teach_section(n, t, g)]
    /\ pc' = [pc EXCEPT ![p] = "done"]
    /\ UNCHANGED <<sections, idx>>
    /\ UNCHANGED loopVars

\* difficulty_level is optional
call_quiz_section(p) ==
    /\ pc[p] # "loop"
    /\ \E n \in 1..MaxSection, t \in Concepts :
          \/ \E d \in Difficulties :
                /\ call' = [call EXCEPT ![p] =
                               [tool |-> "quiz_section",
                                args |-> [section_number |-> n,
                                          section_title |-> t,
                                          difficulty_level |-> d]]]
                /\ result' = [result EXCEPT ![p] = quiz_section(n, t, d)]
          \/ /\ call' = [call EXCEPT ![p] =
                            [tool |-> "quiz_section",
                             args |-> [section_number |-> n,
                                       section_title |-> t]]]
             /\ result' = [result EXCEPT ![p] =
                              quiz_section(n, t, DefaultDifficulty)]
    /\ pc' = [pc EXCEPT ![p] = "done"]
    /\ UNCHANGED <<sections, idx>>
    /\ UNCHANGED loopVars

\* passing_threshold is optional
call_check_understanding(p) ==
    /\ pc[p] # "loop"
    /\ \E q \in QuizResults :
          \/ \E t \in Thresholds :
                /\ call' = [call EXCEPT ![p] =
                               [tool |-> "check_understanding",
                                args |-> [quiz_results |-> q,
                                          passing_threshold |-> t]]]
                /\ result' = [result EXCEPT ![p] = check_understanding(q, t)]
          \/ /\ call' = [call EXCEPT ![p] =
                            [tool |-> "check_understanding",
                             args |-> [quiz_results |-> q]]]
             /\ result' = [result EXCEPT ![p] =
                              check_understanding(q, DefaultPassingThreshold)]
    /\ pc' = [pc EXCEPT ![p] = "done"]
    /\ UNCHANGED <<sections, idx>>
    /\ UNCHANGED loopVars

\* create_study_sections, one step per statement so that calls interleave
create_begin(p) ==
    /\ pc[p] # "loop"
    /\ \E s \in Subjects, kc \in ConceptLists, d \in Dates :
          call' = [call EXCEPT ![p] =
                      [tool |-> "create_study_sections",
                       args |-> [subject |-> s, key_concepts |-> kc,
                                 exam_date |-> d]]]
    /\ sections' = [sections EXCEPT ![Frame(p)] = <<>>]
    /\ idx' = [idx EXCEPT ![Frame(p)] = 1]
    /\ result' = [result EXCEPT ![p] = EmptyDict]
    /\ pc' = [pc EXCEPT ![p] = "loop"]
    /\ UNCHANGED loopVars

create_iterate(p) ==
    /\ pc[p] = "loop"
    /\ idx[Frame(p)] <= Len(call[p].args.key_concepts)
    /\ sections' = [sections EXCEPT ![Frame(p)] =
                       LoopBody(sections[Frame(p)], idx[Frame(p)],
                                call[p].args.key_concepts)]
    /\ idx' = [idx EXCEPT ![Frame(p)] = idx[Frame(p)] + 1]
    /\ UNCHANGED <<pc, call, result>>
    /\ UNCHANGED loopVars

\* the frame is discarded on return
create_return(p) ==
    /\ pc[p] = "loop"
    /\ idx[Frame(p)] > Len(call[p].args.key_concepts)
    /\ result' = [result EXCEPT ![p] = CreateReturn(sections[Frame(p)])]
    /\ pc' = [pc EXCEPT ![p] = "done"]
    /\ sections' = [sections EXCEPT ![Frame(p)] = <<>>]
    /\ idx' = [idx EXCEPT ![Frame(p)] = 1]
    /\ UNCHANGED call
    /\ UNCHANGED loopVars

Next ==
    \E p \in Procs :
        \/ call_get_student_info(p)
        \/ call_research_subject(p)
        \/ call_teach_section(p)
        \/ call_quiz_section(p)
        \/ call_check_understanding(p)
        \/ create_begin(p)
        \/ create_iterate(p)
        \/ create_return(p)

Spec == Init /\ [][Next]_vars


(* ------------- the teaching loop of ROOT_INSTRUCTIONS ------------------ *)
\* Step 1: get to know the student
Intake ==
    /\ wf_step = "intake"
    /\ \E g \in Grades, s \in Subjects, d \in Dates, k \in Knowledge :
          wf_profile' = get_student_info(g, s, d, k).student_profile
    /\ wf_step' = "research"
    /\ UNCHANGED <<wf_research, wf_plan, wf_cur, wf_quiz, wf_check, checks,
                   lowChecks, allDefault>>
    /\ UNCHANGED callerVars

\* Step 2: research the subject
Research ==
    /\ wf_step = "research"
    /\ wf_research' = research_subject(wf_profile.subject, wf_profile.grade_level)
    /\ wf_step' = "plan"
    /\ UNCHANGED <<wf_profile, wf_plan, wf_cur, wf_quiz, wf_check, checks,
                   lowChecks, allDefault>>
    /\ UNCHANGED callerVars

\* Step 3: divide the subject into sections; the loop of step 4 runs once
\* for each section, so a plan without sections leaves nothing to teach
Plan ==
    /\ wf_step = "plan"
    /\ \E kc \in ConceptLists \cup {wf_research.key_concepts} :
          LET plan == create_study_sections(wf_profile.subject, kc,
                                            wf_profile.exam_date)
          IN  /\ wf_plan' = plan
              /\ wf_cur' = plan.current_section
              /\ wf_step' = IF plan.total_sections = 0 THEN "finished" ELSE "teach"
    /\ UNCHANGED <<wf_profile, wf_research, wf_quiz, wf_check, checks,
                   lowChecks, allDefault>>
    /\ UNCHANGED callerVars

CurrentTitle == wf_plan.study_sections[wf_cur].title

\* Step 4a: teach the material
Teach ==
    /\ wf_step = "teach"
    /\ teach_section(wf_cur, CurrentTitle, wf_profile.grade_level).next_step
          = "quiz_section"
    /\ wf_step' = "quiz"
    /\ UNCHANGED <<wf_profile, wf_research, wf_plan, wf_cur, wf_quiz, wf_check,
                   checks, lowChecks, allDefault>>
    /\ UNCHANGED callerVars

\* Step 4b: quiz the student
Quiz ==
    /\ wf_step = "quiz"
    /\ \E d \in Difficulties \cup {DefaultDifficulty} :
          wf_quiz' = quiz_section(wf_cur, CurrentTitle, d)
    /\ wf_step' = "check"
    /\ UNCHANGED <<wf_profile, wf_research, wf_plan, wf_cur, wf_check, checks,
                   lowChecks, allDefault>>
    /\ UNCHANGED callerVars

\* Step 4c: check understanding, with a threshold or with the default
Check ==
    /\ wf_step = "check"
    /\ checks < MaxChecks
    /\ \/ \E t \in Thresholds :
             /\ wf_check' = check_understanding(wf_quiz, t)
             /\ lowChecks' = IF t <= 75
                             THEN lowChecks + 1 ELSE lowChecks
             /\ allDefault' = FALSE
       \/ /\ wf_check' = check_understanding(wf_quiz, DefaultPassingThreshold)
          /\ lowChecks' = IF DefaultPassingThreshold <= 75
                          THEN lowChecks + 1 ELSE lowChecks
          /\ allDefault' = allDefault
    /\ checks' = checks + 1
    /\ wf_step' = "decide"
    /\ UNCHANGED <<wf_profile, wf_research, wf_plan, wf_cur, wf_quiz>>
    /\ UNCHANGED callerVars

\* Step 4d, understanding is sufficient: move to the next section
Advance ==
    /\ wf_step = "decide"
    /\ wf_check.understanding_sufficient
    /\ IF wf_cur < wf_plan.total_sections
       THEN wf_cur' = wf_cur + 1 /\ wf_step' = "teach"
       ELSE wf_cur' = wf_cur /\ wf_step' = "finished"
    /\ UNCHANGED <<wf_profile, wf_research, wf_plan, wf_quiz, wf_check, checks,
                   lowChecks, allDefault>>
    /\ UNCHANGED callerVars

\* Step 4d, understanding is lacking: teach the same section again, re-quiz
Reteach ==
    /\ wf_step = "decide"
    /\ ~wf_check.understanding_sufficient
    /\ wf_step' = "teach"
    /\ UNCHANGED <<wf_profile, wf_research, wf_plan, wf_cur, wf_quiz, wf_check,
                   checks, lowChecks, allDefault>>
    /\ UNCHANGED callerVars

LoopNext ==
    \/ Intake
    \/ Research
    \/ Plan
    \/ Teach
    \/ Quiz
    \/ Check
    \/ Advance
    \/ Reteach

LoopSpec == Init /\ [][LoopNext]_vars


(* ------------------------- checked properties -------------------------- *)
Done(p, tool) == pc[p] = "done" /\ call[p].tool = tool

\* the threshold a check_understanding call runs with: the argument, or the
\* default of the signature when the argument is omitted
ThresholdOf(args) ==
    IF "passing_threshold" \in DOMAIN args THEN args.passing_threshold ELSE 80

\* C1: check_understanding answers sufficient / proceed_to_next_section when
\* passing_threshold <= 0.75 and insufficient / review_and_reteach when it is
\* above 0.75; two calls with the same threshold return the same record
\* whatever their quiz_results
C1_ThresholdDecides ==
    \A p \in Procs : Done(p, "check_understanding") =>
        /\ ThresholdOf(call[p].args) <= 75 =>
              /\ result[p].understanding_sufficient = TRUE
              /\ result[p].next_action = "proceed_to_next_section"
        /\ ThresholdOf(call[p].args) > 75 =>
              /\ result[p].understanding_sufficient = FALSE
              /\ result[p].next_action = "review_and_reteach"
        /\ \A q \in Procs :
              (/\ Done(q, "check_understanding")
               /\ ThresholdOf(call[q].args) = ThresholdOf(call[p].args))
                  => result[q] = result[p]

C1_Witness ==
    /\ Done(1, "check_understanding") /\ Done(2, "check_understanding")
    /\ ThresholdOf(call[1].args) = 75 /\ ThresholdOf(call[2].args) = 75
    /\ call[1].args.quiz_results # call[2].args.quiz_results
    /\ result[1].understanding_sufficient

\* C2: create_study_sections returns as many sections as key_concepts has
\* entries, the n-th section is numbered n, and current_section is 1
C2_SectionsNumbered ==
    \A p \in Procs : Done(p, "create_study_sections") =>
        /\ Len(result[p].study_sections) = Len(call[p].args.key_concepts)
        /\ \A n \in 1..Len(result[p].study_sections) :
              result[p].study_sections[n].section_number = n
        /\ result[p].current_section = 1

C2_Witness ==
    /\ Done(1, "create_study_sections")
    /\ Len(call[1].args.key_concepts) = 2
    /\ Len(result[1].study_sections) = 2

\* C3: get_student_info returns the four arguments unchanged in
\* student_profile, with profile_complete true and next_step research_subject
C3_ProfileEchoesArguments ==
    \A p \in Procs : Done(p, "get_student_info") =>
        /\ result[p].student_profile.grade_level = call[p].args.grade_level
        /\ result[p].student_profile.subject = call[p].args.subject
        /\ result[p].student_profile.exam_date = call[p].args.exam_date
        /\ result[p].student_profile.current_knowledge
              = call[p].args.current_knowledge
        /\ result[p].student_profile.profile_complete = TRUE
        /\ result[p].next_step = "research_subject"

C3_Witness ==
    /\ Done(1, "get_student_info")
    /\ result[1].student_profile.subject = "Biology"
    /\ result[1].student_profile.grade_level = "9th grade"

\* C4: research_subject returns 4 key_concepts and 3 difficulty_areas, and
\* any two calls return the same two lists whatever their arguments
C4_ResearchIsFixed ==
    \A p \in Procs : Done(p, "research_subject") =>
        /\ Len(result[p].key_concepts) = 4
        /\ Len(result[p].difficulty_areas) = 3
        /\ \A q \in Procs : Done(q, "research_subject") =>
              /\ result[q].key_concepts = result[p].key_concepts
              /\ result[q].difficulty_areas = result[p].difficulty_areas

C4_Witness ==
    /\ Done(1, "research_subject") /\ Done(2, "research_subject")
    /\ call[1].args.subject # call[2].args.subject
    /\ call[1].args.grade_level # call[2].args.grade_level

\* C5: section 1 has prerequisite "Basic foundational knowledge" and section
\* i > 1 has prerequisite "Understanding of previous (i-1) sections"
C5_PrerequisiteNamesPriorCount ==
    \A p \in Procs : Done(p, "create_study_sections") =>
        \A n \in 1..Len(result[p].study_sections) :
            /\ n = 1 => result[p].study_sections[n].prerequisites
                           = "Basic foundational knowledge"
            /\ n = 2 => result[p].study_sections[n].prerequisites
                           = "Understanding of previous 1 sections"
            /\ n > 1 => result[p].study_sections[n].prerequisites
                           = "Understanding of previous " \o ToString(n - 1)
                               \o " sections"

C5_Witness ==
    /\ Done(2, "create_study_sections")
    /\ call[2].args.key_concepts = <<"Cells", "Genetics">>
    /\ result[2].study_sections[2].prerequisites
          = "Understanding of previous 1 sections"

\* C6 as stated: every tool's record contains a next_step hint
C6_EveryToolHasNextStep ==
    \A p \in Procs : pc[p] = "done" => "next_step" \in DOMAIN result[p]

\* C6: the records of get_student_info, research_subject,
\* create_study_sections, teach_section and quiz_section contain next_step;
\* the record of check_understanding contains next_action and no next_step
C6_NextStepExceptCheck ==
    \A p \in Procs : pc[p] = "done" =>
        IF call[p].tool = "check_understanding"
        THEN /\ "next_step" \notin DOMAIN result[p]
             /\ "next_action" \in DOMAIN result[p]
        ELSE "next_step" \in DOMAIN result[p]

C6_Witness ==
    /\ Done(1, "check_understanding") /\ "next_action" \in DOMAIN result[1]
    /\ Done(2, "quiz_section") /\ "next_step" \in DOMAIN result[2]

\* what a call returns when it runs alone, start to end
Alone(c) ==
    CASE c.tool = "get_student_info" ->
            get_student_info(c.args.grade_level, c.args.subject,
                             c.args.exam_date, c.args.current_knowledge)
      [] c.tool = "research_subject" ->
            research_subject(c.args.subject, c.args.grade_level)
      [] c.tool = "create_study_sections" ->
            create_study_sections(c.args.subject, c.args.key_concepts,
                                  c.args.exam_date)
      [] c.tool = "teach_section" ->
            teach_section(c.args.section_number, c.args.section_title,
                          c.args.student_grade)
      [] c.tool = "quiz_section" ->
            quiz_section(c.args.section_number, c.args.section_title,
                         IF "difficulty_level" \in DOMAIN c.args
                         THEN c.args.difficulty_level ELSE "medium")
      [] c.tool = "check_understanding" ->
            check_understanding(c.args.quiz_results, ThresholdOf(c.args))

\* C7: in any order and interleaving of calls, every completed call has
\* returned a record (no error), the record is the one the same call returns
\* when it runs alone, and two calls with the same arguments return the same
\* record whatever ran before or alongside them
C7_OrderAndInterleavingFree ==
    \A p \in Procs : pc[p] = "done" =>
        /\ "error" \notin DOMAIN result[p]
        /\ result[p] = Alone(call[p])
        /\ \A q \in Procs :
              (pc[q] = "done" /\ call[q] = call[p]) => result[q] = result[p]

\* both callers completed the same planning call, and it was the first tool
\* either of them used, against the intended intake -> research -> plan order
C7_Witness ==
    /\ Done(1, "create_study_sections") /\ Done(2, "create_study_sections")
    /\ call[1] = call[2]
    /\ Len(call[1].args.key_concepts) = 2
    /\ result[1] = result[2]

SectionsDone ==
    IF wf_step \in {"intake", "research", "plan"} THEN 0
    ELSE IF wf_step = "finished" THEN wf_plan.total_sections
    ELSE wf_cur - 1

\* C9 as stated: with the default threshold every check answers
\* review_and_reteach, the loop stays on section 1 and never finishes; the
\* loop finishes only if every check used a threshold <= 0.75
C9_FinishesOnlyIfEveryCheckLow ==
    /\ (checks >= 1 /\ allDefault) =>
          /\ wf_check.next_action = "review_and_reteach"
          /\ wf_cur = 1
          /\ wf_step # "finished"
    /\ wf_step = "finished" => lowChecks = checks

\* C9: with the default threshold every check answers review_and_reteach,
\* the loop stays on section 1 and never finishes; each section is completed
\* by exactly one check with threshold <= 0.75, so the loop finishes only
\* after as many such checks as there are sections, while checks with a higher
\* threshold in between only repeat the section
C9_OneLowCheckPerSection ==
    /\ (checks >= 1 /\ allDefault) =>
          /\ wf_check.next_action = "review_and_reteach"
          /\ wf_cur = 1
          /\ wf_step # "finished"
    /\ lowChecks = SectionsDone
                     + (IF wf_step = "decide" /\ wf_check.understanding_sufficient
                        THEN 1 ELSE 0)
    /\ wf_step = "finished" => lowChecks = wf_plan.total_sections

\* the section is being taught again after three checks with the default
C9_Witness ==
    /\ allDefault
    /\ checks >= 3
    /\ wf_step = "teach"
    /\ wf_cur = 1
    /\ wf_check.next_action = "review_and_reteach"

\* C10 as stated: total_sections counts the sections, titles are the
\* concepts in input order, every status is "not_started", and
\* 1 <= current_section <= total_sections
C10_CurrentSectionExists ==
    \A p \in Procs : Done(p, "create_study_sections") =>
        /\ result[p].total_sections = Len(result[p].study_sections)
        /\ Len(result[p].study_sections) = Len(call[p].args.key_concepts)
        /\ \A n \in 1..Len(result[p].study_sections) :
              /\ result[p].study_sections[n].title = call[p].args.key_concepts[n]
              /\ result[p].study_sections[n].status = "not_started"
        /\ 1 <= result[p].current_section
        /\ result[p].current_section <= result[p].total_sections

\* C10: total_sections counts the sections, titles are the concepts in input
\* order with duplicates kept, every status is "not_started", and
\* current_section is 1, which is an existing section exactly when
\* key_concepts is not empty
C10_PlanShape ==
    \A p \in Procs : Done(p, "create_study_sections") =>
        /\ result[p].total_sections = Len(result[p].study_sections)
        /\ Len(result[p].study_sections) = Len(call[p].args.key_concepts)
        /\ \A n \in 1..Len(result[p].study_sections) :
              /\ result[p].study_sections[n].title = call[p].args.key_concepts[n]
              /\ result[p].study_sections[n].status = "not_started"
        /\ result[p].current_section = 1
        /\ (result[p].current_section <= result[p].total_sections)
              <=> (call[p].args.key_concepts # <<>>)

C10_Witness ==
    /\ Done(1, "create_study_sections")
    /\ call[1].args.key_concepts = <<"Cells", "Cells">>
    /\ result[1].total_sections = 2
    /\ result[1].study_sections[2].title = "Cells"

====
